---- MODULE Spec2Model ----
(***************************************************************************)
(* Manifest generation of aemscreens-offlineresources-generator:           *)
(* ManifestGenerator.createManifest / createEntries / getPageJsonEntry and *)
(* the PathUtils string helpers (src/src/utils/pathUtils.js).              *)
(*                                                                         *)
(* Strings are sequences of one-character strings, so that trim, indexOf,  *)
(* substring, lastIndexOf and concat are computed as JavaScript computes   *)
(* them.  Every `await` of the code is a suspension point: one action is   *)
(* the synchronous code that runs from the resumption of one await to the  *)
(* next await (or to the settlement of the top-level promise).             *)
(***************************************************************************)
EXTENDS Integers, Sequences, FiniteSets, TLC

(***************************************************************************)
(* Bounds of the model.                                                    *)
(***************************************************************************)
\* Deepest chain of createManifest activations the model follows.  The
\* acyclic lookups below nest at most three deep; a fragment cycle would nest
\* without end: an activation deeper than MaxDepth is entered and then no
\* longer followed.
MaxDepth == 3

\* Reading of the wall clock at the start of the first invocation, in epoch
\* milliseconds; it lies between the two last-modified dates of HttpDates.
ClockStart == 20000

(***************************************************************************)
(* JavaScript string primitives.                                           *)
(***************************************************************************)
Min(a, b) == IF a < b THEN a ELSE b

Max(a, b) == IF a > b THEN a ELSE b

Clamp(n, len) == Max(0, Min(n, len))

\* String.prototype.substring(start, end): both indices clamped to
\* [0, length], swapped when start > end, characters [start, end).
substring(s, start, end) ==
    LET a == Clamp(start, Len(s))
        b == Clamp(end, Len(s))
    IN SubSeq(s, Min(a, b) + 1, Max(a, b))

\* String.prototype.substring(start): to the end of the string.
substringFrom(s, start) == substring(s, start, Len(s))

\* String.prototype.indexOf(pat): 0-based index of the first match, else -1.
indexOf(s, pat) ==
    LET hits == {k \in 0..(Len(s) - Len(pat)) : SubSeq(s, k + 1, k + Len(pat)) = pat}
    IN IF hits = {} THEN -1 ELSE CHOOSE k \in hits : \A j \in hits : k <= j

\* String.prototype.lastIndexOf(pat): 0-based index of the last match, else -1.
lastIndexOf(s, pat) ==
    LET hits == {k \in 0..(Len(s) - Len(pat)) : SubSeq(s, k + 1, k + Len(pat)) = pat}
    IN IF hits = {} THEN -1 ELSE CHOOSE k \in hits : \A j \in hits : k >= j

\* String.prototype.includes(pat).
includes(s, pat) == indexOf(s, pat) >= 0

IsWhiteSpace(c) == c = " "

\* String.prototype.trim(): leading and trailing white space removed.
trim(s) ==
    LET keep == {k \in 1..Len(s) : ~IsWhiteSpace(s[k])}
    IN IF keep = {} THEN <<>>
       ELSE SubSeq(s, CHOOSE k \in keep : \A j \in keep : k <= j,
                      CHOOSE k \in keep : \A j \in keep : k >= j)

\* s.split(sep)[0]: the part of s before the first sep, all of s without one.
splitFirst(s, sep) ==
    IF indexOf(s, sep) < 0 THEN s ELSE substring(s, 0, indexOf(s, sep))

\* String.prototype.slice(start) for a start >= 0.
slice(s, start) == SubSeq(s, Min(start, Len(s)) + 1, Len(s))

(***************************************************************************)
(* Constants.MEDIA_PREFIX (src/constants.js is not among the sources; the   *)
(* value is the media prefix marker of the specification's examples).      *)
(***************************************************************************)
MEDIA_PREFIX == <<"/", "m", "e", "d", "i", "a", "_">>

DotHtml == <<".", "h", "t", "m", "l">>

DotPlainHtml == <<".", "p", "l", "a", "i", "n", ".", "h", "t", "m", "l">>

(***************************************************************************)
(* PathUtils.                                                              *)
(***************************************************************************)
getParentFromPath(path) == substring(path, 0, lastIndexOf(path, <<"/">>))

(***************************************************************************)
(* ManifestGenerator: pure helpers.                                        *)
(***************************************************************************)
\* trimImagesPath writes arr[index] = noQuery; this is the value written.
trimImagesPath(item) ==
    LET trimmedItem == trim(item)
        isRelative == Len(trimmedItem) > 0 /\ trimmedItem[1] = "."
        noDot == IF isRelative THEN substringFrom(trimmedItem, 1) ELSE trimmedItem
    IN splitFirst(noDot, <<"?">>)

isMedia(path) == includes(trim(path), MEDIA_PREFIX)

getHashFromMedia(path) ==
    LET path1 == trim(path)
    IN substring(path1, Len(MEDIA_PREFIX), indexOf(path1, <<".">>))

\* The index is taken in the untrimmed path and applied to the trimmed one.
extractMediaFromPath(path) == substringFrom(trim(path), indexOf(path, MEDIA_PREFIX))

(***************************************************************************)
(* Collaborators outside the core: the HEAD probe (FetchUtils), the dirty  *)
(* check (GitUtils), JSON.parse, Date and the wall clock.                  *)
(***************************************************************************)
\* Values of the last-modified header the upstream host answers with.
HttpDates == {<<"Thu, 01 Jan 1970 00:00:10 GMT">>, <<"Thu, 01 Jan 1970 00:00:30 GMT">>}

\* new Date(date).getTime(): epoch milliseconds of an HTTP date.
DateParse(date) ==
    CASE date = "Thu, 01 Jan 1970 00:00:10 GMT" -> 10000
      [] date = "Thu, 01 Jan 1970 00:00:30 GMT" -> 30000

\* A response of FetchUtils.fetchDataWithMethod(host, path, 'HEAD') that did
\* not throw: lastModified is <<>> when headers.get('last-modified') is null,
\* else the one-element sequence holding the header's value.
Responses == {[ok |-> TRUE, lastModified |-> h] : h \in {<<>>} \cup HttpDates}

\* `resp` left undefined by a probe that threw.
Undefined == [ok |-> FALSE, lastModified |-> <<>>]

\* const date = resp && resp.headers.get('last-modified')
lastModifiedOf(resp) == IF resp.ok THEN resp.lastModified ELSE <<>>

\* if (date): null, undefined and the empty string are falsy.
Truthy(date) == date # <<>> /\ date[1] # ""

\* JSON.parse of a category's JSON text, a list of strings.
JSONparse(text) == text.array

\* Destructuring default of createManifest: an absent category is '[]'.
Category(data, name) == IF name \in DOMAIN data THEN data[name] ELSE [array |-> <<>>]

\* Map.prototype.get on the updated-flags map; undefined is falsy.
FlagGet(map, key) == IF key \in DOMAIN map THEN map[key] ELSE FALSE

(***************************************************************************)
(* Manifest entries.  An entry is a record with the field path and the     *)
(* optional fields timestamp and hash, as in the code.  The field origin   *)
(* is a provenance tag of the model, not a field of the JSON: "updated" /  *)
(* "page" for an entry built by getPageJsonEntry (with / without the       *)
(* recently-updated flag), "resource" for one built by createEntries.      *)
(***************************************************************************)
HasTimestamp(e) == "timestamp" \in DOMAIN e

HasHash(e) == "hash" \in DOMAIN e

\* Mutant of getPageJsonEntry: the last-modified date is looked at before the
\* recently-updated flag.
getPageJsonEntry_DateFirst(path, isHtmlUpdated, resp, now) ==
    LET entryPath == path \o DotHtml
        date == lastModifiedOf(resp)
        origin == IF isHtmlUpdated THEN "updated" ELSE "page"
    IN IF Truthy(date)
       THEN [path |-> entryPath, timestamp |-> DateParse(date[1]), origin |-> origin]
       ELSE IF isHtmlUpdated
       THEN [path |-> entryPath, timestamp |-> now, origin |-> origin]
       ELSE [path |-> entryPath, origin |-> origin]

\* Mutant of getPageJsonEntry: the wall clock is used whatever the flag says.
getPageJsonEntry_AlwaysNow(path, isHtmlUpdated, resp, now) ==
    [path |-> path \o DotHtml, timestamp |-> now,
     origin |-> IF isHtmlUpdated THEN "updated" ELSE "page"]

\* getPageJsonEntry after its await: resp is the probe's response, now the
\* value new Date().getTime() would return.
getPageJsonEntry(path, isHtmlUpdated, resp, now) ==
    LET entryPath == path \o DotHtml
        date == lastModifiedOf(resp)
        origin == IF isHtmlUpdated THEN "updated" ELSE "page"
    IN IF isHtmlUpdated
       THEN [path |-> entryPath, timestamp |-> now, origin |-> origin]
       ELSE IF Truthy(date)
       THEN [path |-> entryPath, timestamp |-> DateParse(date[1]), origin |-> origin]
       ELSE [path |-> entryPath, origin |-> origin]

\* Mutant of resourceEntry: the date is recorded before the media test, so a
\* media entry carries a timestamp as well.
resourceEntry_StampMedia(parentPath, item, date) ==
    LET resourceSubPath == trim(item)
    IN IF isMedia(resourceSubPath) /\ Truthy(date)
       THEN [path |-> parentPath \o item, timestamp |-> DateParse(date[1]),
             hash |-> getHashFromMedia(resourceSubPath), origin |-> "resource"]
       ELSE IF isMedia(resourceSubPath)
       THEN [path |-> parentPath \o item,
             hash |-> getHashFromMedia(resourceSubPath), origin |-> "resource"]
       ELSE IF Truthy(date)
       THEN [path |-> item, timestamp |-> DateParse(date[1]), origin |-> "resource"]
       ELSE [path |-> item, origin |-> "resource"]

\* The entry of one resource (createEntries, the loop body after the probe):
\* item is resourcesArr[i], date the probe's last-modified or <<>>.
resourceEntry(parentPath, item, date) ==
    LET resourceSubPath == trim(item)
    IN IF isMedia(resourceSubPath)
       THEN [path |-> parentPath \o item,
             hash |-> getHashFromMedia(resourceSubPath), origin |-> "resource"]
       ELSE IF Truthy(date)
       THEN [path |-> item, timestamp |-> DateParse(date[1]), origin |-> "resource"]
       ELSE [path |-> item, origin |-> "resource"]

\* Mutant of resourceLastModified: the comparison with the running maximum
\* is left out.
resourceLastModified_NoCompare(lastModified, item, date) ==
    IF ~isMedia(trim(item)) /\ Truthy(date)
    THEN DateParse(date[1])
    ELSE lastModified

\* lastModified after the loop body: raised only in the non-media branch
\* that found a date.
resourceLastModified(lastModified, item, date) ==
    IF ~isMedia(trim(item)) /\ Truthy(date) /\ DateParse(date[1]) > lastModified
    THEN DateParse(date[1])
    ELSE lastModified

\* Mutant of skipResource: a probe that threw skips the resource without
\* asking whether the file is dirty.
skipResource_IgnoreDirty(threw, dirty) == threw

\* The catch block's decision: the resource is skipped (continue) when the
\* probe threw and the file is not dirty.
skipResource(threw, dirty) == threw /\ ~dirty

\* new Set(iterable) then Array.from: insertion order, duplicates dropped.
RECURSIVE SetFrom(_, _)
SetFrom(seq, acc) ==
    IF seq = <<>> THEN acc
    ELSE SetFrom(Tail(seq),
                 IF \E k \in 1..Len(acc) : acc[k] = Head(seq) THEN acc
                 ELSE Append(acc, Head(seq)))

\* Mutant of MapSet: an existing key keeps its first value.
MapSet_KeepFirst(map, key, value) ==
    IF \E k \in 1..Len(map) : map[k][1] = key
    THEN map
    ELSE Append(map, <<key, value>>)

\* Map.prototype.set on a Map held as the sequence of its <<key, value>>
\* pairs in insertion order: an existing key keeps its place and takes the
\* new value.
MapSet(map, key, value) ==
    IF \E k \in 1..Len(map) : map[k][1] = key
    THEN [k \in 1..Len(map) |-> IF map[k][1] = key THEN <<key, value>> ELSE map[k]]
    ELSE Append(map, <<key, value>>)

\* Array.from(map.values()).
MapValues(map) == [k \in 1..Len(map) |-> map[k][2]]

\* entries.forEach((entry) => allEntries.set(entry.path, entry)).
RECURSIVE SetAll(_, _)
SetAll(map, entries) ==
    IF entries = <<>> THEN map
    ELSE SetAll(MapSet(map, Head(entries).path, Head(entries)), Tail(entries))

\* The body of newEntries.forEach: a media entry's path is rebased to the
\* including page's parent before the entry is set.
rebase(path, entry) ==
    IF isMedia(entry.path)
    THEN [entry EXCEPT !.path = getParentFromPath(path) \o extractMediaFromPath(entry.path)]
    ELSE entry

RebaseAll(path, entries) == [k \in 1..Len(entries) |-> rebase(path, entries[k])]

\* The manifest document of createManifest.
manifestJson(timestamp, allEntries) ==
    [version |-> "3.0",
     timestamp |-> timestamp,
     entries |-> MapValues(allEntries),
     contentDelivery |-> [providers |-> <<[name |-> "franklin", endpoint |-> "/"]>>,
                          defaultProvider |-> "franklin"]]

(***************************************************************************)
(* Caller-supplied data: page paths, resource paths and the lookups the    *)
(* model is run on.                                                        *)
(***************************************************************************)
PageP == <<"/", "a", "/", "p">>

FragX == <<"/", "f", "/", "x">>

FragG == <<"/", "g">>

\* A page whose own name starts with "media_".
FragK == <<"/", "m", "e", "d", "i", "a", "_", "k">>

FragC == <<"/", "c">>

ScriptS == <<"/", "s", ".", "j", "s">>

\* "./media_1.p?w": a relative media path with a query, as found in assets.
AssetM == <<".", "/", "m", "e", "d", "i", "a", "_", "1", ".", "p", "?", "w">>

\* " /media_1.p": a media path with leading white space, as found in a
\* category that trimImagesPath is not applied to.
DepM == <<" ", "/", "m", "e", "d", "i", "a", "_", "1", ".", "p">>

Json(list) == [array |-> list]

\* A page that includes a fragment sharing its script; the fragment has a
\* media asset.
LookupOverlap ==
    (PageP :> [path |-> PageP, scripts |-> Json(<<ScriptS>>), fragments |-> Json(<<FragX>>)])
    @@ (FragX :> [path |-> FragX, scripts |-> Json(<<ScriptS>>), assets |-> Json(<<AssetM>>)])

\* Fragments nested two deep; the categories not named are absent.
LookupNested ==
    (PageP :> [path |-> PageP, fragments |-> Json(<<FragX>>)])
    @@ (FragX :> [path |-> FragX, fragments |-> Json(<<FragG>>)])
    @@ (FragG :> [path |-> FragG, dependencies |-> Json(<<DepM>>)])

\* Two fragments in one list, both with the same script.
LookupTwo ==
    (PageP :> [path |-> PageP, fragments |-> Json(<<FragK, FragX>>)])
    @@ (FragK :> [path |-> FragK, scripts |-> Json(<<ScriptS>>)])
    @@ (FragX :> [path |-> FragX, styles |-> Json(<<ScriptS>>)])

\* A fragment that includes itself.
LookupCycle ==
    (PageP :> [path |-> PageP, fragments |-> Json(<<FragC>>)])
    @@ (FragC :> [path |-> FragC, fragments |-> Json(<<FragC>>)])

Lookups == {LookupOverlap, LookupNested, LookupTwo, LookupCycle}

\* The updated-flags maps tried for a lookup: no flag at all, the invoked
\* page flagged, every page flagged.
UpdatedMaps(map, root) ==
    {<<>>, (root :> TRUE), [q \in DOMAIN map |-> TRUE]}

\* The fragment paths a page of the lookup lists.
FragmentsOf(map, q) == {JSONparse(Category(map[q], "fragments"))[k] :
                          k \in 1..Len(JSONparse(Category(map[q], "fragments")))}

\* Pages reachable from the pages of `from` through fragment lists.
RECURSIVE ReachableFrom(_, _)
ReachableFrom(map, from) ==
    LET more == from \cup UNION {FragmentsOf(map, q) : q \in from}
    IN IF more = from THEN from ELSE ReachableFrom(map, more)

\* A fragment cycle is reachable from root.
CycleReachable(map, root) ==
    \E q \in ReachableFrom(map, {root}) : q \in ReachableFrom(map, FragmentsOf(map, q))

(***************************************************************************)
(* State.                                                                  *)
(***************************************************************************)
VARIABLES
    manifestMap,        \* the caller's lookup: page path -> raw category data
    isHtmlUpdatedMap,   \* the caller's updated flags: page path -> boolean
    rootPath,           \* the page path createManifest is invoked on
    stack,              \* the activations of createManifest, innermost last
    status,             \* "idle", "running", "resolved" or "rejected"
    result,             \* <<manifestJson, timestamp>> once resolved, else <<>>
    outstanding,        \* the probes and dirty checks issued and not yet settled
    clock,              \* the wall clock, epoch milliseconds
    invocation,         \* 1 for the first invocation, 2 for the repeated one
    replay,             \* the collaborators' answers of invocation 1, in order
    first,              \* <<status, result>> of invocation 1, else <<>>
    producedTs,         \* history: timestamps of all entries pushed by createEntries
    resLog,             \* history: one record per resource the loop went through
    mergeLog,           \* history: one record per fragment entry merged
    rootLog             \* history: every write into the invoked page's allEntries

vars == <<manifestMap, isHtmlUpdatedMap, rootPath, stack, status, result, outstanding,
          clock, invocation, replay, first, producedTs, resLog, mergeLog, rootLog>>

inputs == <<manifestMap, isHtmlUpdatedMap, rootPath>>

Top(st) == st[Len(st)]

SetTop(st, f) == [st EXCEPT ![Len(st)] = f]

(***************************************************************************)
(* createManifest from its entry to the first await: the category lists    *)
(* are parsed, assets and inline images normalised, the resource set is    *)
(* built, createEntries starts and getPageJsonEntry issues the page probe. *)
(* The result is the activation record, waiting at "pageProbe".            *)
(***************************************************************************)
forEachTrim(list) == [k \in 1..Len(list) |-> trimImagesPath(list[k])]

createManifestEnter(path, additionalAssets) ==
    LET data == manifestMap[path]
        scriptsList == JSONparse(Category(data, "scripts"))
        stylesList == JSONparse(Category(data, "styles"))
        assetsList == forEachTrim(JSONparse(Category(data, "assets")))
        inlineImagesList == forEachTrim(JSONparse(Category(data, "inlineImages")))
        dependenciesList == JSONparse(Category(data, "dependencies"))
        pageResources == SetFrom(scriptsList \o stylesList \o assetsList
                                 \o inlineImagesList \o dependenciesList
                                 \o additionalAssets, <<>>)
    IN [path |-> path,
        dataPath |-> data.path,
        isHtmlUpdated |-> FlagGet(isHtmlUpdatedMap, data.path),
        fragments |-> Category(data, "fragments"),
        resourcesArr |-> pageResources,
        i |-> 0,
        entriesJson |-> <<>>,
        lastModified |-> 0,
        parentPath |-> getParentFromPath(data.path),
        allEntries |-> <<>>,
        fragmentsList |-> <<>>,
        fi |-> 0,
        fragmentsLastModified |-> 0,
        setLog |-> <<>>,
        ret |-> <<>>,
        pc |-> "pageProbe"]

\* Mutant of loopContinues: the loop stops one resource early.
loopContinues_OffByOne(i, resourcesArr) == i < Len(resourcesArr) - 1

\* The condition of createEntries' for loop.
loopContinues(i, resourcesArr) == i < Len(resourcesArr)

\* The fragment createManifest recurses into next.
nextFragment(fragmentsList, fi) == fragmentsList[fi + 1]

\* The for-of loop over fragmentsList: recurse into the next fragment (its
\* activation runs to its page probe), or build the manifest and return.
fragmentLoop(st) ==
    LET f == Top(st)
    IN IF f.fi < Len(f.fragmentsList)
       THEN LET fragmentPath == nextFragment(f.fragmentsList, f.fi)
            IN Append(SetTop(st, [f EXCEPT !.pc = "fragment"]),
                      createManifestEnter(fragmentPath, <<fragmentPath \o DotPlainHtml>>))
       ELSE LET timestamp == Max(f.lastModified, f.fragmentsLastModified)
            IN SetTop(st, [f EXCEPT !.pc = "returned",
                                    !.ret = <<manifestJson(timestamp, f.allEntries), timestamp>>])

\* createEntries has returned: its entries are set into allEntries, the
\* fragment list is parsed and the fragment loop starts.
afterEntries(st) ==
    LET f == Top(st)
    IN fragmentLoop(SetTop(st, [f EXCEPT !.allEntries = SetAll(<<>>, f.entriesJson),
                                         !.setLog = f.entriesJson,
                                         !.fragmentsList = JSONparse(f.fragments),
                                         !.fragmentsLastModified = 0]))

\* The head of createEntries' loop: probe the next resource, or return.
loopHead(st) ==
    LET f == Top(st)
    IN IF loopContinues(f.i, f.resourcesArr)
       THEN SetTop(st, [f EXCEPT !.pc = "resourceProbe"])
       ELSE afterEntries(st)

\* The operation the innermost activation has issued and awaits.
Awaited(st) ==
    IF st = <<>> THEN {}
    ELSE LET f == Top(st)
         IN CASE f.pc = "pageProbe" ->
                   {[op |-> "HEAD", path |-> f.dataPath \o DotHtml, depth |-> Len(st)]}
              [] f.pc = "resourceProbe" ->
                   {[op |-> "HEAD", path |-> trim(f.resourcesArr[f.i + 1]), depth |-> Len(st)]}
              [] f.pc = "dirtyCheck" ->
                   {[op |-> "isFileDirty", path |-> slice(trim(f.resourcesArr[f.i + 1]), 1),
                     depth |-> Len(st)]}
              [] OTHER -> {}

(***************************************************************************)
(* Steps of an activation.                                                 *)
(***************************************************************************)
\* createEntries, after getPageJsonEntry resolved: lastModified is seeded from
\* the page entry's timestamp.
pageLastModified(lastModified, pageEntryJson) ==
    IF HasTimestamp(pageEntryJson) /\ pageEntryJson.timestamp # 0
       /\ pageEntryJson.timestamp > lastModified
    THEN pageEntryJson.timestamp
    ELSE lastModified

\* One pass of createEntries' loop body once the probe (and, after a throw,
\* the dirty check) has settled: the resource is skipped or its entry pushed.
resourceStep(f, threw, dirty, resp) ==
    LET item == f.resourcesArr[f.i + 1]
        date == lastModifiedOf(resp)
    IN IF skipResource(threw, dirty)
       THEN [f EXCEPT !.i = @ + 1]
       ELSE [f EXCEPT !.entriesJson = Append(@, resourceEntry(f.parentPath, item, date)),
                      !.lastModified = resourceLastModified(@, item, date),
                      !.i = @ + 1]

\* The caller's code after `await createManifest(fragment)`: the fragment's
\* timestamp is folded in and its entries are rebased and set.
mergeFragment(caller, ret) ==
    LET newEntries == ret[1].entries
        fragmentLastModified == ret[2]
        rebased == RebaseAll(caller.path, newEntries)
    IN [caller EXCEPT !.fragmentsLastModified = Max(@, fragmentLastModified),
                      !.allEntries = SetAll(@, rebased),
                      !.setLog = @ \o rebased,
                      !.fi = @ + 1]

\* The collaborators' answers: free in the first invocation, where they are
\* recorded; those of the first invocation, in order, in the repeated one.
Answer(o) ==
    IF invocation = 1
    THEN replay' = Append(replay, o)
    ELSE /\ replay # <<>>
         /\ o = Head(replay)
         /\ replay' = Tail(replay)

HeadAnswer(threw, resp) == [op |-> "HEAD", threw |-> threw, resp |-> resp, dirty |-> FALSE]

DirtyAnswer(dirty) == [op |-> "isFileDirty", threw |-> FALSE, resp |-> Undefined, dirty |-> dirty]

\* The synchronous code has run from the resumed await to the next one and
\* left the activations st: the awaited operation is settled, the next one
\* issued, and the top-level promise resolves when the invoked page returns.
Proceed(st) ==
    /\ outstanding' = (outstanding \ Awaited(stack)) \cup Awaited(st)
    /\ IF Len(st) = 1 /\ Top(st).pc = "returned"
       THEN /\ stack' = <<>>
            /\ status' = "resolved"
            /\ result' = Top(st).ret
            /\ rootLog' = Top(st).setLog
       ELSE /\ stack' = st
            /\ UNCHANGED <<status, result, rootLog>>

LogResource(f, threw, dirty, resp, g) ==
    resLog' = Append(resLog,
                     [page |-> f.path,
                      item |-> f.resourcesArr[f.i + 1],
                      threw |-> threw,
                      dirty |-> dirty,
                      date |-> lastModifiedOf(resp),
                      before |-> <<f.entriesJson, f.lastModified>>,
                      after |-> <<g.entriesJson, g.lastModified>>,
                      next |-> g.i])

Pushed(f, g) ==
    {g.entriesJson[k].timestamp :
       k \in {j \in (Len(f.entriesJson) + 1)..Len(g.entriesJson) : HasTimestamp(g.entriesJson[j])}}

(***************************************************************************)
(* Actions.                                                                *)
(***************************************************************************)
Init ==
    /\ manifestMap \in Lookups
    /\ rootPath = PageP
    /\ isHtmlUpdatedMap \in UpdatedMaps(manifestMap, rootPath)
    /\ stack = <<>>
    /\ status = "idle"
    /\ result = <<>>
    /\ outstanding = {}
    /\ clock = ClockStart
    /\ invocation = 1
    /\ replay = <<>>
    /\ first = <<>>
    /\ producedTs = {}
    /\ resLog = <<>>
    /\ mergeLog = {}
    /\ rootLog = <<>>

\* The caller invokes createManifest(host, manifestMap, rootPath, isHtmlUpdatedMap).
Invoke ==
    /\ status = "idle"
    /\ status' = "running"
    /\ stack' = <<createManifestEnter(rootPath, <<>>)>>
    /\ outstanding' = outstanding \cup Awaited(stack')
    /\ UNCHANGED <<inputs, result, clock, invocation, replay, first,
                   producedTs, resLog, mergeLog, rootLog>>

\* The HEAD probe of the page's .html resolves.
PageProbeReturns ==
    /\ status = "running"
    /\ stack # <<>>
    /\ Len(stack) <= MaxDepth
    /\ Top(stack).pc = "pageProbe"
    /\ \E resp \in Responses :
         LET f == Top(stack)
             pageEntryJson == getPageJsonEntry(f.dataPath, f.isHtmlUpdated, resp, clock)
             g == [f EXCEPT !.lastModified = pageLastModified(@, pageEntryJson),
                            !.entriesJson = Append(@, pageEntryJson)]
         IN /\ Answer(HeadAnswer(FALSE, resp))
            /\ Proceed(loopHead(SetTop(stack, g)))
            /\ clock' = IF f.isHtmlUpdated THEN clock + 1 ELSE clock
            /\ producedTs' = producedTs \cup Pushed(f, g)
    /\ UNCHANGED <<inputs, invocation, first, resLog, mergeLog>>

\* The HEAD probe of the page's .html throws: nothing catches it, so every
\* awaiting activation rejects in turn and the top-level promise rejects.
PageProbeThrows ==
    /\ status = "running"
    /\ stack # <<>>
    /\ Len(stack) <= MaxDepth
    /\ Top(stack).pc = "pageProbe"
    /\ Answer(HeadAnswer(TRUE, Undefined))
    /\ stack' = <<>>
    /\ status' = "rejected"
    /\ outstanding' = outstanding \ Awaited(stack)
    /\ UNCHANGED <<inputs, result, clock, invocation, first,
                   producedTs, resLog, mergeLog, rootLog>>

\* The HEAD probe of resourcesArr[i] resolves.
ResourceProbeReturns ==
    /\ status = "running"
    /\ stack # <<>>
    /\ Len(stack) <= MaxDepth
    /\ Top(stack).pc = "resourceProbe"
    /\ \E resp \in Responses :
         LET f == Top(stack)
             g == resourceStep(f, FALSE, FALSE, resp)
         IN /\ Answer(HeadAnswer(FALSE, resp))
            /\ Proceed(loopHead(SetTop(stack, g)))
            /\ LogResource(f, FALSE, FALSE, resp, g)
            /\ producedTs' = producedTs \cup Pushed(f, g)
    /\ UNCHANGED <<inputs, clock, invocation, first, mergeLog>>

\* The HEAD probe of resourcesArr[i] throws: the catch block asks GitUtils.
ResourceProbeThrows ==
    /\ status = "running"
    /\ stack # <<>>
    /\ Len(stack) <= MaxDepth
    /\ Top(stack).pc = "resourceProbe"
    /\ Answer(HeadAnswer(TRUE, Undefined))
    /\ Proceed(SetTop(stack, [Top(stack) EXCEPT !.pc = "dirtyCheck"]))
    /\ UNCHANGED <<inputs, clock, invocation, first, producedTs, resLog, mergeLog>>

\* GitUtils.isFileDirty resolves.
DirtyCheckReturns ==
    /\ status = "running"
    /\ stack # <<>>
    /\ Len(stack) <= MaxDepth
    /\ Top(stack).pc = "dirtyCheck"
    /\ \E dirty \in BOOLEAN :
         LET f == Top(stack)
             g == resourceStep(f, TRUE, dirty, Undefined)
         IN /\ Answer(DirtyAnswer(dirty))
            /\ Proceed(loopHead(SetTop(stack, g)))
            /\ LogResource(f, TRUE, dirty, Undefined, g)
            /\ producedTs' = producedTs \cup Pushed(f, g)
    /\ UNCHANGED <<inputs, clock, invocation, first, mergeLog>>

\* A fragment's createManifest has returned: the caller resumes.
FragmentReturns ==
    /\ status = "running"
    /\ Len(stack) >= 2
    /\ Len(stack) <= MaxDepth
    /\ Top(stack).pc = "returned"
    /\ LET callee == Top(stack)
           caller == stack[Len(stack) - 1]
           g == mergeFragment(caller, callee.ret)
       IN /\ Proceed(fragmentLoop(Append(SubSeq(stack, 1, Len(stack) - 2), g)))
          /\ mergeLog' = mergeLog \cup
                {[into |-> caller.path,
                  from |-> callee.ret[1].entries[k].path,
                  key |-> rebase(caller.path, callee.ret[1].entries[k]).path] :
                   k \in 1..Len(callee.ret[1].entries)}
    /\ UNCHANGED <<inputs, clock, invocation, replay, first, producedTs, resLog>>

\* The caller invokes createManifest again with the same arguments; the
\* collaborators answer as they did.
InvokeAgain ==
    /\ status \in {"resolved", "rejected"}
    /\ invocation = 1
    /\ invocation' = 2
    /\ first' = <<status, result>>
    /\ status' = "running"
    /\ result' = <<>>
    /\ stack' = <<createManifestEnter(rootPath, <<>>)>>
    /\ outstanding' = outstanding \cup Awaited(stack')
    /\ clock' = clock + 1
    /\ producedTs' = {}
    /\ resLog' = <<>>
    /\ mergeLog' = {}
    /\ rootLog' = <<>>
    /\ UNCHANGED <<inputs, replay>>

Next ==
    \/ Invoke
    \/ PageProbeReturns
    \/ PageProbeThrows
    \/ ResourceProbeReturns
    \/ ResourceProbeThrows
    \/ DirtyCheckReturns
    \/ FragmentReturns

Spec == Init /\ [][Next]_vars

\* Two invocations in a row.
InitTwice == Init /\ manifestMap \in {LookupOverlap}

NextTwice == Next \/ InvokeAgain

SpecTwice == InitTwice /\ [][NextTwice]_vars

(***************************************************************************)
(* Vocabulary of the properties.                                           *)
(***************************************************************************)
Resolved == status = "resolved"

Settled == status \in {"resolved", "rejected"}

\* The entries list of the returned manifest.
Entries == result[1].entries

MaxOf(S) == IF S = {} THEN 0 ELSE CHOOSE m \in S : \A x \in S : m >= x

TimestampsOf(entries) ==
    {entries[k].timestamp : k \in {j \in 1..Len(entries) : HasTimestamp(entries[j])}}

\* The last write of rootLog to the path of rootLog[k].
IsLastWrite(k) == \A j \in (k + 1)..Len(rootLog) : rootLog[j].path # rootLog[k].path

\* The media suffix of a path: the trimmed path from its media prefix marker
\* on, as PathUtils.extractMediaFromPath computes it.
PathUtils_extractMediaFromPath(resourcePath) ==
    LET trimmedResourcePath == trim(resourcePath)
    IN substringFrom(trimmedResourcePath, indexOf(trimmedResourcePath, MEDIA_PREFIX))

\* An entry without the timestamp a recently-updated page took from the
\* wall clock.
EraseClock(e) ==
    IF e.origin = "updated" THEN [x \in (DOMAIN e) \ {"timestamp"} |-> e[x]] ELSE e

SameEntries(a, b) ==
    /\ Len(a) = Len(b)
    /\ \A k \in 1..Len(a) : EraseClock(a[k]) = EraseClock(b[k])

\* An action can be taken: the invocation has not begun, or it is running and
\* its innermost activation is one the model follows.
CanStep == status = "idle" \/ (status = "running" /\ Len(stack) <= MaxDepth)

(***************************************************************************)
(* C1                                                                      *)
(***************************************************************************)
\* C1 as stated: the timestamp of a returned manifest is the maximum of the
\* timestamps present in its entries list (0 when none is present) and is at
\* least the page entry's own timestamp.
C1_TimestampIsMaxOfPresentEntries ==
    Resolved =>
      /\ result[1].timestamp = MaxOf(TimestampsOf(Entries))
      /\ HasTimestamp(rootLog[1]) => result[1].timestamp >= rootLog[1].timestamp

\* C1 amended: the timestamp of a returned manifest is the maximum of the
\* timestamps of all entries createEntries pushed during the build, for the
\* page and for every fragment, replaced later or not (0 when there is
\* none); so it is at least every timestamp present in the entries list and
\* at least the page entry's own timestamp, and it is the second component
\* of the returned pair.
C1_TimestampIsMaxOfProducedEntries ==
    Resolved =>
      /\ result[1].timestamp = MaxOf(producedTs)
      /\ result[2] = result[1].timestamp
      /\ \A t \in TimestampsOf(Entries) : result[1].timestamp >= t
      /\ HasTimestamp(rootLog[1]) => result[1].timestamp >= rootLog[1].timestamp

\* A manifest is returned in which a later write replaced the entry that
\* carried the largest timestamp.
C1_Witness ==
    /\ Resolved
    /\ Len(rootLog) > Len(Entries)
    /\ result[1].timestamp > MaxOf(TimestampsOf(Entries))
    /\ result[1].timestamp = MaxOf(producedTs)

(***************************************************************************)
(* C2                                                                      *)
(***************************************************************************)
\* C2: in a returned manifest no two entries share a path, and the entries
\* are exactly the last writes, one per path, of the sequence of writes: the
\* page entry, the page's resource entries, the fragments' entries in
\* fragment-list order.
C2_UniquePathsLastWriteWins ==
    Resolved =>
      /\ \A j, k \in 1..Len(Entries) : Entries[j].path = Entries[k].path => j = k
      /\ \A k \in 1..Len(rootLog) :
            IsLastWrite(k) => \E j \in 1..Len(Entries) : Entries[j] = rootLog[k]
      /\ \A j \in 1..Len(Entries) :
            \E k \in 1..Len(rootLog) : IsLastWrite(k) /\ Entries[j] = rootLog[k]
      /\ rootLog[1].path = rootPath \o DotHtml
      /\ rootLog[1].origin \in {"page", "updated"}

\* A manifest is returned after a write replaced an entry of another value.
C2_Witness ==
    /\ Resolved
    /\ \E j, k \in 1..Len(rootLog) :
          /\ j < k
          /\ rootLog[j].path = rootLog[k].path
          /\ rootLog[j] # rootLog[k]
          /\ IsLastWrite(k)

(***************************************************************************)
(* C3                                                                      *)
(***************************************************************************)
\* C3 as stated: in a returned manifest an entry whose path contains the
\* media prefix marker has no timestamp, and no entry has both a hash and a
\* timestamp.
C3_MediaPathNeverTimestamped ==
    Resolved =>
      \A k \in 1..Len(Entries) :
         /\ isMedia(Entries[k].path) => ~HasTimestamp(Entries[k])
         /\ ~(HasHash(Entries[k]) /\ HasTimestamp(Entries[k]))

\* C3 amended: in a returned manifest every entry other than the page
\* entries built by getPageJsonEntry has no timestamp when its path contains
\* the media prefix marker; no entry at all has both a hash and a timestamp;
\* and the entry pushed for a non-media resource whose probe returned a
\* last-modified value has a timestamp and no hash.
C3_ResourceMediaNeverTimestamped ==
    /\ Resolved =>
         \A k \in 1..Len(Entries) :
            /\ (Entries[k].origin = "resource" /\ isMedia(Entries[k].path))
                  => ~HasTimestamp(Entries[k])
            /\ ~(HasHash(Entries[k]) /\ HasTimestamp(Entries[k]))
    /\ \A k \in 1..Len(resLog) :
         LET r == resLog[k]
             pushed == r.after[1][Len(r.after[1])]
         IN (Len(r.after[1]) > Len(r.before[1]) /\ ~isMedia(r.item) /\ r.date # <<>>)
              => (~HasHash(pushed) /\ HasTimestamp(pushed))

\* A manifest is returned that holds a hashed media entry of a resource and a
\* timestamped page entry whose path contains the media prefix marker.
C3_Witness ==
    /\ Resolved
    /\ \E k \in 1..Len(Entries) :
          /\ Entries[k].origin = "resource"
          /\ isMedia(Entries[k].path)
          /\ HasHash(Entries[k])
    /\ \E k \in 1..Len(Entries) :
          /\ Entries[k].origin # "resource"
          /\ isMedia(Entries[k].path)
          /\ HasTimestamp(Entries[k])

(***************************************************************************)
(* C4                                                                      *)
(***************************************************************************)
\* C4: every fragment entry merged into a page is set under the page's
\* parent followed by the entry's media suffix when its path is a media
\* path, and under its own path otherwise.
C4_FragmentMediaRebased ==
    \A m \in mergeLog :
       IF isMedia(m.from)
       THEN m.key = getParentFromPath(m.into) \o PathUtils_extractMediaFromPath(m.from)
       ELSE m.key = m.from

(***************************************************************************)
(* C5                                                                      *)
(***************************************************************************)
\* C5: a resource of the set yields an entry exactly when its probe
\* succeeded or the dirty check returned true; a resource whose probe failed
\* and that is not dirty leaves the entries and lastModified as they were;
\* either way the loop goes on with the next index.
C5_EntryIffFetchedOrDirty ==
    \A k \in 1..Len(resLog) :
       LET r == resLog[k]
           fetched == ~r.threw
           emitted == Len(r.after[1]) = Len(r.before[1]) + 1
       IN /\ emitted <=> (fetched \/ r.dirty)
          /\ emitted => SubSeq(r.after[1], 1, Len(r.before[1])) = r.before[1]
          /\ ~emitted => r.after = r.before
          /\ (k < Len(resLog) /\ resLog[k + 1].page = r.page /\ resLog[k + 1].next > r.next)
                => /\ resLog[k + 1].next = r.next + 1
                   /\ resLog[k + 1].before = r.after

\* A manifest is returned after a resource was skipped, the next resource of
\* the same page was processed, and some resource was kept for being dirty.
C5_Witness ==
    /\ Resolved
    /\ \E k \in 1..(Len(resLog) - 1) :
          /\ resLog[k].threw /\ ~resLog[k].dirty
          /\ resLog[k].after = resLog[k].before
          /\ resLog[k + 1].page = resLog[k].page
          /\ resLog[k + 1].next = resLog[k].next + 1
    /\ \E k \in 1..Len(resLog) : resLog[k].threw /\ resLog[k].dirty

(***************************************************************************)
(* C6                                                                      *)
(***************************************************************************)
\* C6: no probe outcome makes createManifest abort: the top-level promise
\* never rejects.
C6_NeverAborts == status # "rejected"

(***************************************************************************)
(* C7                                                                      *)
(***************************************************************************)
\* C7: a repeated invocation with the same arguments and the same answers of
\* the collaborators settles as the first did and returns an entries list
\* equal in order and content, apart from the wall-clock timestamps of page
\* entries flagged as recently updated; no step changes the caller's lookup
\* or flags.
C7_RepeatedInvocationSameEntries ==
    /\ []((invocation = 2 /\ Settled) =>
            /\ status = first[1]
            /\ replay = <<>>
            /\ Resolved => SameEntries(Entries, first[2][1].entries))
    /\ [][inputs' = inputs]_vars

\* The repeated invocation has returned; its entries differ from the first
\* invocation's in a wall-clock timestamp only, and hold a page entry
\* timestamped from a last-modified date.
C7_Witness ==
    /\ invocation = 2
    /\ Resolved
    /\ Entries # first[2][1].entries
    /\ \E k \in 1..Len(Entries) : Entries[k].origin = "page" /\ HasTimestamp(Entries[k])
    /\ \E k \in 1..Len(Entries) : Entries[k].origin = "resource" /\ HasTimestamp(Entries[k])

(***************************************************************************)
(* C8                                                                      *)
(***************************************************************************)
\* C8: createManifest terminates exactly when no fragment cycle is reachable
\* from the invoked page: with a reachable cycle it never settles, and
\* without one it is never stuck before it has returned.
C8_TerminatesIffAcyclic ==
    /\ CycleReachable(manifestMap, rootPath) => ~Settled
    /\ ~CycleReachable(manifestMap, rootPath) => (Resolved \/ CanStep)

(***************************************************************************)
(* C9                                                                      *)
(***************************************************************************)
\* C9: at most one probe or dirty check is outstanding, and it is the one the
\* innermost activation awaits; every other activation awaits the fragment
\* above it, which is the next of its fragment list; an activation probes
\* its page first, its resources one at a time after that, and turns to its
\* fragments only when all its resources are done and its own entries are
\* set.
C9_StrictlySequential ==
    /\ Cardinality(outstanding) <= 1
    /\ outstanding = Awaited(stack)
    /\ \A d \in 1..Len(stack) :
         LET f == stack[d]
         IN /\ d < Len(stack) =>
                 /\ f.pc = "fragment"
                 /\ stack[d + 1].path = f.fragmentsList[f.fi + 1]
            /\ d = Len(stack) => f.pc # "fragment"
            /\ f.pc = "pageProbe" =>
                 (f.entriesJson = <<>> /\ f.i = 0 /\ f.setLog = <<>> /\ f.fi = 0)
            /\ f.pc \in {"resourceProbe", "dirtyCheck"} =>
                 /\ Len(f.entriesJson) >= 1
                 /\ Len(f.entriesJson) <= f.i + 1
                 /\ f.i < Len(f.resourcesArr)
                 /\ f.setLog = <<>>
                 /\ f.fi = 0
            /\ f.pc \in {"fragment", "returned"} =>
                 /\ f.i = Len(f.resourcesArr)
                 /\ SubSeq(f.setLog, 1, Len(f.entriesJson)) = f.entriesJson
            /\ f.pc = "fragment" => f.fi < Len(f.fragmentsList)
            /\ f.pc = "returned" => f.fi = Len(f.fragmentsList)

\* The second fragment of a page is being built and awaits a dirty check,
\* the only outstanding operation.
C9_Witness ==
    /\ Len(stack) = 2
    /\ stack[1].fi = 1
    /\ stack[2].pc = "dirtyCheck"
    /\ Cardinality(outstanding) = 1

(***************************************************************************)
(* C10                                                                     *)
(***************************************************************************)
\* C10: the step in which a page probe resolves builds an entry whose path
\* is the page path followed by ".html" and whose timestamp is the wall
\* clock when the page is flagged as recently updated, else the parsed
\* last-modified value when the probe returned one, else absent.
C10_PageEntryTimestampPriority ==
    [][(stack # <<>> /\ Top(stack).pc = "pageProbe" /\ status' # "rejected") =>
         LET f == Top(stack)
             o == replay'[Len(replay')]
             e == IF stack' = <<>> THEN rootLog'[1] ELSE stack'[Len(stack)].entriesJson[1]
         IN /\ e.path = f.path \o DotHtml
            /\ IF f.isHtmlUpdated
               THEN HasTimestamp(e) /\ e.timestamp = clock
               ELSE IF o.resp.lastModified # <<>>
                    THEN HasTimestamp(e) /\ e.timestamp = DateParse(o.resp.lastModified[1])
                    ELSE ~HasTimestamp(e)]_vars

\* A manifest is returned whose page was flagged as recently updated while
\* its probe returned a last-modified value: the entry has the clock's time.
C10_Witness ==
    /\ Resolved
    /\ rootLog[1].origin = "updated"
    /\ replay[1].resp.lastModified # <<>>
    /\ rootLog[1].timestamp = ClockStart
    /\ \E k \in 2..Len(rootLog) :
          rootLog[k].origin = "page" /\ HasTimestamp(rootLog[k])

====
